---- MODULE Spec2Model ----
(***************************************************************************)
(* State-machine model of indexer/src/transactions/database.rs: the        *)
(* earliest-block search, the retrying range fetch (search), the windowed  *)
(* bulk catch-up (transactions), the follow loop (continuous_indexing),    *)
(* block decoding/persisting, and the supervisor (transaction_info_thread).*)
(* One step of the model is what the single-threaded runtime does between  *)
(* two suspension points (a reply of the chain node, or the end of a       *)
(* sleep).                                                                 *)
(***************************************************************************)
EXTENDS Integers, Sequences, FiniteSets, TLC

\* ------------------------------------------------------------------ bounds
\* Highest chain height the node ever reports.
MaxTip == 6
\* The node's oldest retrievable height is drawn from 1..MaxCutoff.
MaxCutoff == 1
\* test_block_limit of the test configuration.
TestBlockLimit == 3
\* Calls of transactions that may end in Err in the full model.
MaxFailedRetries == 1
\* Interval ends enumerated for the stand-alone earliest-block search.
MaxHigh == 6
\* get_chain_status replies the node gives to one call of transactions
\* before it reports a moving chain or fails.
MaxStatusCalls == 11
\* Longest decimal height a key is built for (a u64 has up to 20 digits).
MaxDigits == 13
\* Heights and batch sizes enumerated for the partition on its own.
MaxSplitHeight == 7
MaxBatch == 3
\* database.rs:520 sets BATCH_SIZE = 500 and database.rs:522 EXECUTE_SIZE = 10.
\* The model keeps the two names and scales the values so that several
\* windows fit under MaxTip; no definition depends on the particular values.
BATCH_SIZE == 1
EXECUTE_SIZE == 2

\* ------------------------------------------------------- program constants
MAX_RETRIES == 5
\* std::time::Duration keeps whole seconds in a u64.
DurationSecsBits == 64

\* Option::None of an Option<u64>, and "not set yet" for a local.
None == 0 - 1

Min(a, b) == IF a < b THEN a ELSE b

\* ------------------------------------------------------------- chain data
SEND_URL == "/cosmos.bank.v1beta1.MsgSend"
TRANSFER_URL == "/ibc.applications.transfer.v1.MsgTransfer"
OTHER_URL == "/cosmos.gov.v1beta1.MsgVote"

\* A message of a transaction body: its type tag, whether its payload
\* decodes, and the decoded payload.  An Option field is a sequence of no or
\* one element.
SendMsg(ok, from, to, amt) ==
    [type_url |-> SEND_URL, decodable |-> ok,
     value |-> [from_address |-> from, to_address |-> to,
                amount |-> <<[denom |-> "uabc", amount |-> amt]>>]]

TransferMsg(ok, sender, receiver, amt) ==
    [type_url |-> TRANSFER_URL, decodable |-> ok,
     value |-> [source_port |-> "transfer", source_channel |-> "channel-0",
                token |-> <<[denom |-> "uabc", amount |-> amt]>>,
                sender |-> sender, receiver |-> receiver,
                timeout_height |-> << >>, timeout_timestamp |-> 0]]

OtherMsg == [type_url |-> OTHER_URL, decodable |-> TRUE, value |-> << >>]

\* The transactions of the block at height h.  Every fourth height repeats
\* the pattern: no transaction; one transaction with two send messages; a
\* transaction whose send payload does not decode, followed by a transfer,
\* and a transaction with an unrelated message; a transfer and a send.
TxsAt(h) ==
    CASE h % 4 = 0 -> << >>
      [] h % 4 = 1 -> << [raw |-> <<"a", h>>,
                          messages |-> << SendMsg(TRUE, "A", "B", "10"),
                                          SendMsg(TRUE, "A", "C", "20") >>] >>
      [] h % 4 = 2 -> << [raw |-> <<"b", h>>,
                          messages |-> << SendMsg(FALSE, "A", "B", "30"),
                                          TransferMsg(TRUE, "A", "X", "40") >>],
                         [raw |-> <<"c", h>>,
                          messages |-> << OtherMsg >>] >>
      [] OTHER     -> << [raw |-> <<"d", h>>,
                          messages |-> << TransferMsg(TRUE, "B", "Y", "50"),
                                          SendMsg(TRUE, "B", "A", "60") >>] >>

BlockAt(h) == [height |-> h, time |-> 1000 + h, txs |-> TxsAt(h)]

\* ---------------------------------------------------------- pure helpers
\* sha256::digest(bytes).to_uppercase(): a digest that identifies the bytes.
TxHash(raw) == <<"SHA256">> \o raw

RECURSIVE Digits(_)
Digits(n) == IF n < 10 THEN <<n>> ELSE Digits(n \div 10) \o <<n % 10>>

RECURSIVE Zeros(_)
Zeros(k) == IF k <= 0 THEN << >> ELSE <<0>> \o Zeros(k - 1)

\* format!("{:012}", n) on the decimal digits ds of n: left-padded with zeros
\* to width 12, and left as they are when there are more than 12.
PadZeros(ds) == Zeros(12 - Len(ds)) \o ds

\* format!("{:012}", n)
Pad12(n) == PadZeros(Digits(n))

\* The bytes of a key: the padded height, the kind, the timestamp and the
\* hash, joined by ':' (ASCII 58); a digit d is the byte 48 + d.
KeyString(height_digits, kind, timestamp_digits, tx_hash) ==
    [i \in 1..Len(PadZeros(height_digits)) |-> 48 + PadZeros(height_digits)[i]]
      \o <<58>> \o kind
      \o <<58>> \o [i \in 1..Len(timestamp_digits) |-> 48 + timestamp_digits[i]]
      \o <<58>> \o tx_hash

\* "msgSend" and "msgIbcTransfer" in ASCII.
MsgSendKind == <<109, 115, 103, 83, 101, 110, 100>>
MsgIbcTransferKind ==
    <<109, 115, 103, 73, 98, 99, 84, 114, 97, 110, 115, 102, 101, 114>>

\* The order of keys in the store: byte strings compared byte by byte, a
\* proper prefix first.
RECURSIVE LexLess(_, _)
LexLess(a, b) ==
    IF b = << >> THEN FALSE
    ELSE IF a = << >> THEN TRUE
    ELSE IF a[1] # b[1] THEN a[1] < b[1]
    ELSE LexLess(Tail(a), Tail(b))

\* The order of unsigned integers given by their decimal digits (no leading
\* zero): fewer digits first, then digit by digit.
DecLess(a, b) ==
    IF Len(a) # Len(b) THEN Len(a) < Len(b) ELSE LexLess(a, b)

MsgSendKey(block_number, timestamp, tx_hash) ==
    <<Pad12(block_number), "msgSend", Digits(timestamp), tx_hash>>

MsgIbcTransferKey(block_number, timestamp, tx_hash) ==
    <<Pad12(block_number), "msgIbcTransfer", Digits(timestamp), tx_hash>>

\* CustomMsgSend::from
CustomMsgSend(msg) ==
    [from_address |-> msg.from_address, to_address |-> msg.to_address,
     amount |-> [k \in 1..Len(msg.amount) |->
                   [denom |-> msg.amount[k].denom, amount |-> msg.amount[k].amount]]]

\* CustomMsgTransfer::from: the optional token becomes a list of 0 or 1 coins,
\* each copied field by field.
CustomMsgTransfer(msg) ==
    [source_port |-> msg.source_port, source_channel |-> msg.source_channel,
     token |-> [k \in 1..Len(msg.token) |->
                  [denom |-> msg.token[k].denom, amount |-> msg.token[k].amount]],
     sender |-> msg.sender, receiver |-> msg.receiver,
     timeout_height |-> msg.timeout_height,
     timeout_timestamp |-> msg.timeout_timestamp]

\* A store that keeps every value ever written under a key.
PutAccumulating(store, key, val) == store \cup {[key |-> key, val |-> val]}

\* db.put(key, value): one value per key, the last one written.
Put(store, key, val) ==
    {r \in store : r.key # key} \cup {[key |-> key, val |-> val]}

\* ------------------------------------------- decode and persist one block
\* search, lines 212-265: one message of a transaction in the bulk path.  A
\* payload that does not decode leaves the store as it is.
SearchMessage(store, block, tx, m) ==
    IF m.type_url = SEND_URL
    THEN IF m.decodable
         THEN Put(store, MsgSendKey(block.height, block.time, TxHash(tx.raw)),
                  CustomMsgSend(m.value))
         ELSE store
    ELSE IF m.type_url = TRANSFER_URL
    THEN IF m.decodable
         THEN Put(store,
                  MsgIbcTransferKey(block.height, block.time, TxHash(tx.raw)),
                  CustomMsgTransfer(m.value))
         ELSE store
    ELSE store

RECURSIVE SearchMessages(_, _, _, _)
SearchMessages(store, block, tx, i) ==
    IF i > Len(tx.messages) THEN store
    ELSE SearchMessages(SearchMessage(store, block, tx, tx.messages[i]),
                        block, tx, i + 1)

RECURSIVE SearchTxs(_, _, _)
SearchTxs(store, block, j) ==
    IF j > Len(block.txs) THEN store
    ELSE SearchTxs(SearchMessages(store, block, block.txs[j], 1), block, j + 1)

\* search, lines 189-271 for the blocks of heights hs[k..]
RECURSIVE SearchBlocks(_, _, _)
SearchBlocks(store, hs, k) ==
    IF k > Len(hs) THEN store
    ELSE SearchBlocks(SearchTxs(store, BlockAt(hs[k]), 1), hs, k + 1)

\* The counters search keeps while it walks the blocks of heights hs.
MsgsOfKind(tx, url) == {i \in 1..Len(tx.messages) : tx.messages[i].type_url = url}

RECURSIVE SumSeq(_, _)
SumSeq(f, k) == IF k > Len(f) THEN 0 ELSE f[k] + SumSeq(f, k + 1)

MsgCounter(tx) ==
    Cardinality(MsgsOfKind(tx, SEND_URL)) + Cardinality(MsgsOfKind(tx, TRANSFER_URL))

SendMsgCounter(tx) ==
    Cardinality({i \in MsgsOfKind(tx, SEND_URL) : tx.messages[i].decodable})

IbcTransferCounter(tx) == IF MsgsOfKind(tx, TRANSFER_URL) # {} THEN 1 ELSE 0

\* What a transaction adds to the counter c of the walk.
TxCount(tx, c) ==
    CASE c = "msg_counter" -> MsgCounter(tx)
      [] c = "send_msg_counter" -> SendMsgCounter(tx)
      [] OTHER -> IbcTransferCounter(tx)

CountInBlock(h, c) ==
    SumSeq([j \in 1..Len(TxsAt(h)) |-> TxCount(TxsAt(h)[j], c)], 1)

CountInBlocks(hs, c) ==
    SumSeq([k \in 1..Len(hs) |-> CountInBlock(hs[k], c)], 1)

\* process_block, lines 347-367: one message in the follow path.  decode_any
\* is unwrapped, so a payload that does not decode panics.
ProcessMessage(st, block, tx, m) ==
    IF ~st.ok THEN st
    ELSE IF m.type_url = SEND_URL
    THEN IF m.decodable
         THEN [st EXCEPT !.db =
                 Put(st.db, MsgSendKey(block.height, block.time, TxHash(tx.raw)),
                     CustomMsgSend(m.value))]
         ELSE [st EXCEPT !.ok = FALSE]
    ELSE IF m.type_url = TRANSFER_URL
    THEN IF m.decodable
         THEN [st EXCEPT !.db =
                 Put(st.db,
                     MsgIbcTransferKey(block.height, block.time, TxHash(tx.raw)),
                     CustomMsgTransfer(m.value))]
         ELSE [st EXCEPT !.ok = FALSE]
    ELSE st

RECURSIVE ProcessMessages(_, _, _, _)
ProcessMessages(st, block, tx, i) ==
    IF i > Len(tx.messages) THEN st
    ELSE ProcessMessages(ProcessMessage(st, block, tx, tx.messages[i]),
                         block, tx, i + 1)

RECURSIVE ProcessTxs(_, _, _)
ProcessTxs(st, block, j) ==
    IF j > Len(block.txs) THEN st
    ELSE ProcessTxs(ProcessMessages(st, block, block.txs[j], 1), block, j + 1)

\* process_block: the store afterwards, and whether the call returned (ok)
\* or panicked part-way.
ProcessBlock(store, block) == ProcessTxs([db |-> store, ok |-> TRUE], block, 1)

\* ------------------------------------------------------------------ state
VARIABLES
    \* the chain node
    tip,                 \* highest height the node has
    cutoff,              \* lowest height the node still has (1..tip present)
    \* configuration
    test_mode,
    fail_limit,          \* calls of transactions the node lets end in Err
    err_after_ok,        \* the node may fail a range call of a task it has
                         \* answered before
    \* the key-value store and the process-wide counters
    db,                  \* records [key, val] written by save_msg_*
    last_download_block, \* value under LAST_DOWNLOAD_BLOCK_KEY, or None
    COUNTER,
    \* transaction_info_thread
    pc,                  \* where the controller is suspended
    site,                \* which call of transactions is running
    retry_interval,      \* log2 of the retry delay in seconds, None outside
    \* transactions
    retries, latest_block,
    start, end,          \* get_earliest_block's interval
    earliest_ret,        \* get_earliest_block's return value
    earliest_block, end_block,
    futures,             \* the sub-range tasks, in creation order
    fut_iter,            \* index of the next future the for loop takes
    buf,                 \* indices of the futures of the current join_all
    final_join,          \* the join_all awaited is the one after the loop
    \* continuous_indexing
    last_indexed_block, block_height, gl_retries,
    \* history, read by the properties only
    processed,           \* heights whose block went through decode/persist
    handled,             \* heights whose block was handed to decode/persist
    bulk_start,          \* earliest_block of the first bulk pass
    ge_err,              \* a GetBlock of the earliest search failed
    fetched,             \* heights GetBlock was called for, this iteration
    returned,            \* heights GetBlock returned a block for, this iteration
    skipped,             \* heights the follow loop skipped after a failed GetBlock
    failed_retries,      \* failed retries since the retry loop was entered
    slept,               \* log2 of the last supervisor sleep, None before
    err_returns,         \* calls of transactions that have returned Err
    panic_cause,
    status_calls,        \* get_chain_status replies since transactions began
                         \* to resolve the tip, 0 once it is resolved
    \* the arguments and the result of a function studied on its own
    probe

envVars == <<tip, cutoff, test_mode, fail_limit, err_after_ok, probe>>
storeVars == <<db, last_download_block, COUNTER>>
supVars == <<site, retry_interval, failed_retries, slept, err_returns>>
geVars == <<start, end, earliest_ret, ge_err>>
bulkVars == <<earliest_block, end_block, futures, fut_iter, buf, final_join,
              bulk_start>>
followVars == <<last_indexed_block, block_height, gl_retries, fetched,
                returned, skipped>>
histVars == <<processed, handled, panic_cause>>

vars == <<envVars, storeVars, pc, supVars, retries, latest_block, geVars,
          bulkVars, followVars, histVars, status_calls>>

ZeroCounters ==
    [blocks |-> 0, transactions |-> 0, msgs |-> 0, ibc_msgs |-> 0, send_msgs |-> 0]

\* Everything but the chain, the configuration and the controller position,
\* as it is when the thread starts on an empty store.
Fresh ==
    /\ db = {} /\ last_download_block = None /\ COUNTER = ZeroCounters
    /\ site = "first" /\ retry_interval = None
    /\ failed_retries = 0 /\ slept = None /\ err_returns = 0
    /\ retries = 0 /\ latest_block = None
    /\ earliest_ret = None /\ ge_err = FALSE
    /\ earliest_block = None /\ end_block = None
    /\ futures = << >> /\ fut_iter = 1 /\ buf = {} /\ final_join = FALSE
    /\ bulk_start = None
    /\ last_indexed_block = None /\ block_height = None /\ gl_retries = 0
    /\ fetched = << >> /\ returned = {} /\ skipped = {}
    /\ processed = {} /\ handled = {} /\ panic_cause = "none"
    /\ status_calls = 0

\* transaction_info_thread has just called transactions for the first time.
Init ==
    /\ cutoff \in 1..MaxCutoff
    /\ tip = cutoff
    /\ test_mode \in BOOLEAN
    /\ fail_limit = MaxFailedRetries
    /\ err_after_ok = FALSE
    /\ pc = "status1"
    /\ start = None /\ end = None
    /\ probe = << >>
    /\ Fresh

\* get_earliest_block(low, high) alone, for every interval up to MaxHigh with
\* low absent and high present.
InitEarliest ==
    /\ end \in 1..MaxHigh
    /\ start \in 0..(end - 1)
    /\ cutoff \in (start + 1)..end
    /\ tip = end
    /\ test_mode = FALSE
    /\ fail_limit = 0
    /\ err_after_ok = FALSE
    /\ pc = "earliest"
    /\ probe = << >>
    /\ Fresh

\* The supervisor while every ChainStatus call fails.
InitSup ==
    /\ cutoff = 1 /\ tip = 1
    /\ test_mode = FALSE
    /\ fail_limit = DurationSecsBits + 2
    /\ err_after_ok = FALSE
    /\ pc = "status1"
    /\ start = None /\ end = None
    /\ probe = << >>
    /\ Fresh

\* ---------------------------------------------------------- the chain node
\* GetBlock(h) has a block to return.
Present(h) == cutoff <= h /\ h <= tip

\* A node whose reported height can go back.
TipsGoingBack == cutoff..MaxTip

\* The heights a ChainStatus reply can report: the chain only grows.
Tips == tip..MaxTip

\* A retry loop that never lengthens its delay.
KeepInterval(e) == e

\* ------------------------------------------------ transaction_info_thread
\* Duration::checked_mul(2), lines 414-419, on the log2 of the seconds: the
\* doubled interval, or the old one when the doubling overflows the u64.
CheckedMul2(e) == IF e + 1 < DurationSecsBits THEN e + 1 ELSE e

\* load_last_download_block(db).unwrap_or(0), line 290.
LoadOrZero(ckpt) == IF ckpt = None THEN 0 ELSE ckpt

\* transactions returned Err: lines 396-398 for the first call, lines
\* 412-420 for a call of the retry loop.
ReturnErr ==
    /\ err_returns < fail_limit
    /\ err_returns' = err_returns + 1
    /\ IF site = "first"
       THEN retry_interval' = 0 /\ failed_retries' = 0
       ELSE /\ retry_interval' = CheckedMul2(retry_interval)
            /\ failed_retries' = failed_retries + 1
    /\ site' = "retry"
    /\ pc' = "sup_sleep"
    /\ UNCHANGED slept

\* transactions returned Ok with the checkpoint ckpt saved, and its locals
\* are gone: line 394 enters continuous_indexing; line 411 leaves the retry
\* loop, and the outer loop calls transactions again (line 384).
ReturnOk(ckpt) ==
    /\ retries' = 0 /\ latest_block' = None
    /\ start' = None /\ end' = None /\ earliest_ret' = None /\ ge_err' = FALSE
    /\ earliest_block' = None /\ end_block' = None
    /\ futures' = << >> /\ fut_iter' = 1 /\ buf' = {} /\ final_join' = FALSE
    /\ UNCHANGED bulk_start
    /\ IF site = "first"
       THEN /\ pc' = "follow_status"
            /\ last_indexed_block' = LoadOrZero(ckpt)
            /\ gl_retries' = 0 /\ fetched' = << >> /\ returned' = {}
            /\ UNCHANGED <<supVars, block_height, skipped>>
       ELSE /\ pc' = "status1"
            /\ site' = "first" /\ retry_interval' = None
            /\ failed_retries' = 0 /\ slept' = None
            /\ UNCHANGED err_returns
            /\ UNCHANGED followVars

\* lines 399-402: the retry loop sleeps retry_interval, then calls transactions.
RetrySleep ==
    /\ pc = "sup_sleep"
    /\ slept' = retry_interval
    /\ pc' = "status1"
    /\ retries' = 0
    /\ UNCHANGED <<envVars, status_calls, storeVars, site, retry_interval, failed_retries,
                   err_returns, latest_block, geVars, bulkVars, followVars, histVars>>

\* ------------------------------------------- transactions: the chain status
\* lines 450-459: the first loop, get_chain_status failed.
Status1Err ==
    /\ pc = "status1"
    /\ retries' = retries + 1
    /\ IF retries + 1 >= MAX_RETRIES
       THEN ReturnErr /\ status_calls' = 0
       ELSE /\ status_calls' = status_calls + 1
            /\ UNCHANGED <<pc, supVars>>
    /\ UNCHANGED <<envVars, storeVars, latest_block, geVars, bulkVars,
                   followVars, histVars>>

\* A Moving status with height h: lines 468-470 (or 474-476), then the call
\* of get_earliest_block(0, latest_block) at line 498.
GotMoving(h) ==
    /\ tip' = h
    /\ latest_block' = h
    /\ start' = 0 /\ end' = h /\ earliest_ret' = None /\ ge_err' = FALSE
    /\ status_calls' = 0
    /\ pc' = "earliest"
    /\ UNCHANGED <<cutoff, test_mode, fail_limit, err_after_ok, probe, storeVars,
                   supVars, retries,
                   bulkVars, followVars, histVars>>

\* lines 447-449 and 468: the first loop got a Moving status.
Status1Moving ==
    /\ pc = "status1"
    /\ \E h \in Tips : GotMoving(h)

\* lines 447-449 and 472: the first loop got a status that is not Moving.
Status1Other ==
    /\ pc = "status1"
    /\ pc' = "status2"
    /\ status_calls' = status_calls + 1
    /\ UNCHANGED <<envVars, storeVars, supVars, retries, latest_block, geVars,
                   bulkVars, followVars, histVars>>

\* lines 473-477: the second loop got a Moving status.
Status2Moving ==
    /\ pc = "status2"
    /\ \E h \in Tips : GotMoving(h)

\* lines 473-479: the second loop got a status that is not Moving; it asks
\* again at once and counts nothing.
Status2Other ==
    /\ pc = "status2"
    /\ status_calls < MaxStatusCalls
    /\ status_calls' = status_calls + 1
    /\ UNCHANGED <<envVars, storeVars, pc, supVars, retries, latest_block,
                   geVars, bulkVars, followVars, histVars>>

\* lines 480-489: the second loop, get_chain_status failed.
Status2Err ==
    /\ pc = "status2"
    /\ retries' = retries + 1
    /\ IF retries + 1 >= MAX_RETRIES
       THEN ReturnErr /\ status_calls' = 0
       ELSE /\ status_calls' = status_calls + 1
            /\ UNCHANGED <<pc, supVars>>
    /\ UNCHANGED <<envVars, storeVars, latest_block, geVars, bulkVars,
                   followVars, histVars>>

\* ------------------------------------------------------ get_earliest_block
\* line 100
Mid(lo, hi) == lo + (hi - lo) \div 2

\* lines 99-103: GetBlock(mid) returned a block.
EarliestPresent ==
    /\ pc = "earliest" /\ start <= end
    /\ Present(Mid(start, end))
    /\ end' = Mid(start, end) - 1
    /\ UNCHANGED <<envVars, status_calls, storeVars, pc, supVars, retries, latest_block,
                   start, earliest_ret, ge_err, bulkVars, followVars, histVars>>

\* lines 99-105: GetBlock(mid) answered that the node has no such block.
EarliestAbsent ==
    /\ pc = "earliest" /\ start <= end
    /\ ~Present(Mid(start, end))
    /\ start' = Mid(start, end) + 1
    /\ UNCHANGED <<envVars, status_calls, storeVars, pc, supVars, retries, latest_block,
                   end, earliest_ret, ge_err, bulkVars, followVars, histVars>>

\* lines 99-105: GetBlock(mid) failed; the else branch takes it for absent.
\* The node fails at most one GetBlock of a search.
EarliestError ==
    /\ pc = "earliest" /\ start <= end /\ ~ge_err
    /\ start' = Mid(start, end) + 1
    /\ ge_err' = TRUE
    /\ UNCHANGED <<envVars, status_calls, storeVars, pc, supVars, retries, latest_block,
                   end, earliest_ret, bulkVars, followVars, histVars>>

\* lines 99 and 109: the interval is empty, the function returns start + 1.
EarliestReturn ==
    /\ pc = "earliest" /\ start > end
    /\ earliest_ret' = start + 1
    /\ pc' = "earliest_done"
    /\ UNCHANGED <<envVars, status_calls, storeVars, supVars, retries, latest_block,
                   start, end, ge_err, bulkVars, followVars, histVars>>

\* lines 98-110 as a function: the value get_earliest_block(lo, hi) returns
\* when every get_block answers and answers truthfully.
RECURSIVE GetEarliestBlock(_, _)
GetEarliestBlock(lo, hi) ==
    IF lo <= hi
    THEN IF Present(Mid(lo, hi))
         THEN GetEarliestBlock(lo, Mid(lo, hi) - 1)
         ELSE GetEarliestBlock(Mid(lo, hi) + 1, hi)
    ELSE lo + 1

\* ------------------------------------------- transactions: the bulk pass
\* heights lo..hi in ascending order
Range(lo, hi) == [k \in 1..(hi - lo + 1) |-> lo + k - 1]

\* search(contact, start, end, db) as pushed at lines 534-535: a future that
\* has not been polled.  A task that is "running" has one get_block_range
\* call in flight; succeeded and gave_up record whether a call of the task
\* has returned Ok and whether the task left its loop at line 157.
NewSearch(s, e) ==
    [start |-> s, end |-> e, current_start |-> s, retries |-> 0,
     status |-> "created", succeeded |-> FALSE, gave_up |-> FALSE]

\* A partition whose next sub-range begins one height after the end of the
\* previous one.
RECURSIVE SplitWithGap(_, _, _)
SplitWithGap(pos, endb, batch) ==
    IF ~(pos < endb) THEN << >>
    ELSE IF endb - pos > batch
    THEN <<NewSearch(pos, pos + batch)>> \o SplitWithGap(pos + batch + 1, endb, batch)
    ELSE <<NewSearch(pos, endb)>>

\* lines 523-536 for a batch size of batch: the search futures of the
\* sub-ranges of [pos, end_block), in the order they are pushed.
RECURSIVE SplitBy(_, _, _)
SplitBy(pos, endb, batch) ==
    IF ~(pos < endb) THEN << >>
    ELSE IF endb - pos > batch
    THEN <<NewSearch(pos, pos + batch)>> \o SplitBy(pos + batch, endb, batch)
    ELSE <<NewSearch(pos, endb)>>

\* lines 520-536: the sub-ranges of [pos, end_block), BATCH_SIZE heights each.
Split(pos, endb) == SplitBy(pos, endb, BATCH_SIZE)

\* The first poll of search by join_all: lines 139-146, up to the first
\* get_block_range call.
FirstPoll(t) ==
    IF t.start > t.end
    THEN [t EXCEPT !.status = "done"]
    ELSE [t EXCEPT !.status = "running"]

\* A for loop that joins the buffer only once it holds EXECUTE_SIZE + 1
\* futures.
RECURSIVE ForLoopWide(_, _, _)
ForLoopWide(fs, i, b) ==
    IF i > Len(fs)
    THEN [futures |-> [k \in 1..Len(fs) |->
                         IF k \in b THEN FirstPoll(fs[k]) ELSE fs[k]],
          fut_iter |-> i, buf |-> b, final_join |-> TRUE]
    ELSE IF Cardinality(b) <= EXECUTE_SIZE
    THEN ForLoopWide(fs, i + 1, b \cup {i})
    ELSE [futures |-> [k \in 1..Len(fs) |->
                         IF k \in b THEN FirstPoll(fs[k])
                         ELSE IF k = i THEN [fs[k] EXCEPT !.status = "dropped"]
                         ELSE fs[k]],
          fut_iter |-> i + 1, buf |-> b, final_join |-> FALSE]

\* lines 542-554 from future i on with the futures in b buffered, up to the
\* next join_all: a future met while the buffer is full is taken from the
\* iterator and is not pushed.
RECURSIVE ForLoop(_, _, _)
ForLoop(fs, i, b) ==
    IF i > Len(fs)
    THEN [futures |-> [k \in 1..Len(fs) |->
                         IF k \in b THEN FirstPoll(fs[k]) ELSE fs[k]],
          fut_iter |-> i, buf |-> b, final_join |-> TRUE]
    ELSE IF Cardinality(b) < EXECUTE_SIZE
    THEN ForLoop(fs, i + 1, b \cup {i})
    ELSE [futures |-> [k \in 1..Len(fs) |->
                         IF k \in b THEN FirstPoll(fs[k])
                         ELSE IF k = i THEN [fs[k] EXCEPT !.status = "dropped"]
                         ELSE fs[k]],
          fut_iter |-> i + 1, buf |-> b, final_join |-> FALSE]

\* lines 500-503
EarliestBlock(ckpt, found) == IF ckpt = None THEN found ELSE ckpt

\* lines 505-509
EndBlock(eb, latest) ==
    IF test_mode THEN Min(eb + TestBlockLimit, latest) ELSE latest

\* lines 500-554 up to the first join_all: the start and end of the pass,
\* the partition, and the first window.
Partition ==
    /\ pc = "earliest_done"
    /\ LET eb == EarliestBlock(last_download_block, earliest_ret)
           endb == EndBlock(eb, latest_block)
           run == ForLoop(Split(eb, endb), 1, {})
       IN  /\ eb <= latest_block
           /\ earliest_block' = eb
           /\ end_block' = endb
           /\ bulk_start' = IF bulk_start = None THEN eb ELSE bulk_start
           /\ futures' = run.futures
           /\ fut_iter' = run.fut_iter
           /\ buf' = run.buf
           /\ final_join' = run.final_join
    /\ pc' = "join"
    /\ UNCHANGED <<envVars, status_calls, storeVars, supVars, retries, latest_block, geVars,
                   followVars, histVars>>

\* lines 513-516: latest_block - earliest_block is computed in u64 for the
\* log line.  With earliest_block above latest_block a build with overflow
\* checks panics there; a build without them wraps and goes on with an empty
\* partition.
PartitionUnderflow ==
    /\ pc = "earliest_done"
    /\ LET eb == EarliestBlock(last_download_block, earliest_ret)
           endb == EndBlock(eb, latest_block)
       IN  /\ eb > latest_block
           /\ earliest_block' = eb
           /\ end_block' = endb
           /\ bulk_start' = IF bulk_start = None THEN eb ELSE bulk_start
           /\ futures' = << >> /\ fut_iter' = 1 /\ buf' = {}
           /\ \/ /\ pc' = "panicked"
                 /\ panic_cause' = "subtract with overflow"
                 /\ final_join' = FALSE
              \/ /\ pc' = "join"
                 /\ final_join' = TRUE
                 /\ UNCHANGED panic_cause
    /\ UNCHANGED <<envVars, status_calls, storeVars, supVars, retries, latest_block, geVars,
                   followVars, processed, handled>>

\* ------------------------------------------------------------------ search
\* A failure arm that starts a new retry budget where the code leaves the
\* loop.
TaskErrNoGiveUp(i) ==
    /\ pc = "join" /\ i \in buf
    /\ futures[i].status = "running"
    /\ err_after_ok \/ ~futures[i].succeeded
    /\ LET t == futures[i]
           current_retries == t.retries
       IN  futures' = [futures EXCEPT ![i] =
              IF current_retries >= MAX_RETRIES
              THEN [t EXCEPT !.retries = 0]
              ELSE [t EXCEPT !.retries = current_retries + 1]]
    /\ UNCHANGED <<envVars, status_calls, storeVars, pc, supVars, retries, latest_block,
                   geVars, earliest_block, end_block, fut_iter, buf,
                   final_join, bulk_start, followVars, histVars>>

\* lines 153-163: get_block_range failed.  fetch_add returns the count
\* before the increment.
TaskErr(i) ==
    /\ pc = "join" /\ i \in buf
    /\ futures[i].status = "running"
    /\ err_after_ok \/ ~futures[i].succeeded
    /\ LET t == futures[i]
           current_retries == t.retries
       IN  futures' = [futures EXCEPT ![i] =
              IF current_retries >= MAX_RETRIES
              THEN [t EXCEPT !.retries = current_retries + 1,
                             !.status = "done", !.gave_up = TRUE]
              ELSE [t EXCEPT !.retries = current_retries + 1]]
    /\ UNCHANGED <<envVars, status_calls, storeVars, pc, supVars, retries, latest_block,
                   geVars, earliest_block, end_block, fut_iter, buf,
                   final_join, bulk_start, followVars, histVars>>

\* lines 149-152 and 166-168: get_block_range returned no block, which the
\* node does when nothing of the range is left.
TaskOkEmpty(i) ==
    /\ pc = "join" /\ i \in buf
    /\ futures[i].status = "running"
    /\ LET t == futures[i]
       IN  /\ t.current_start >= t.end \/ t.current_start > tip
           /\ futures' = [futures EXCEPT ![i] =
                [t EXCEPT !.retries = 0, !.succeeded = TRUE,
                          !.status = "done"]]
    /\ UNCHANGED <<envVars, status_calls, storeVars, pc, supVars, retries, latest_block,
                   geVars, earliest_block, end_block, fut_iter, buf,
                   final_join, bulk_start, followVars, histVars>>

\* lines 189-276: the blocks of result the for loop decodes and persists.
\* current_start is set and tested inside the loop, so the loop is left
\* after its first block when the last height of the result is end or more.
Walked(t, result) ==
    IF result[Len(result)] + 1 > t.end THEN <<result[1]>> ELSE result

\* lines 277-282
AddCounters(c, result, walked) ==
    [blocks |-> c.blocks + Len(result),
     transactions |-> c.transactions + CountInBlocks(walked, "ibc_transfer_counter"),
     msgs |-> c.msgs + CountInBlocks(walked, "msg_counter"),
     ibc_msgs |-> c.ibc_msgs + CountInBlocks(walked, "ibc_transfer_counter"),
     send_msgs |-> c.send_msgs + CountInBlocks(walked, "send_msg_counter")]

SeqToSet(q) == {q[k] : k \in 1..Len(q)}

\* lines 149-152 and 166-283: get_block_range returned the blocks of heights
\* current_start..hi; the task walks them and calls get_block_range again.
TaskOkBlocksUpTo(i, hi) ==
    /\ pc = "join" /\ i \in buf
    /\ futures[i].status = "running"
    /\ LET t == futures[i]
       IN    hi \in t.current_start..Min(t.end, tip) /\
             LET result == Range(t.current_start, hi)
                 walked == Walked(t, result)
             IN  /\ Present(t.current_start)
                 /\ db' = SearchBlocks(db, walked, 1)
                 /\ COUNTER' = AddCounters(COUNTER, result, walked)
                 /\ processed' = processed \cup SeqToSet(walked)
                 /\ handled' = handled \cup SeqToSet(walked)
                 /\ futures' = [futures EXCEPT ![i] =
                      [t EXCEPT !.retries = 0, !.succeeded = TRUE,
                                !.current_start = hi + 1]]
    /\ UNCHANGED <<envVars, status_calls, last_download_block, pc, supVars, retries,
                   latest_block, geVars, earliest_block, end_block, fut_iter,
                   buf, final_join, bulk_start, followVars, panic_cause>>

\* A reply of get_block_range is the whole range, with or without its end,
\* or a truncated one.
TaskOkBlocks(i) ==
    \E hi \in futures[i].current_start..Min(futures[i].end, tip) :
      TaskOkBlocksUpTo(i, hi)

\* A reply of a get_block_range whose end is exclusive: the blocks of
\* heights current_start..end-1, all of them.
TaskOkExclusive(i) ==
    /\ futures[i].current_start < futures[i].end
    /\ TaskOkBlocksUpTo(i, futures[i].end - 1)

\* ----------------------------------------------- transactions: the joins
\* A join_all that is not awaited.
JoinNotAwaited == TRUE

AllDone == \A i \in buf : futures[i].status = "done"

\* lines 546-553: the join_all of a full buffer has finished; the loop goes
\* on with an empty buffer up to the next join_all.
JoinWindowDone ==
    /\ pc = "join" /\ ~final_join /\ AllDone
    /\ LET run == ForLoop(futures, fut_iter, {})
       IN  /\ futures' = run.futures
           /\ fut_iter' = run.fut_iter
           /\ buf' = run.buf
           /\ final_join' = run.final_join
    /\ UNCHANGED <<envVars, status_calls, storeVars, pc, supVars, retries, latest_block,
                   geVars, earliest_block, end_block, bulk_start, followVars,
                   histVars>>

\* lines 554-566: the last join_all has finished; the checkpoint is saved as
\* end_block and transactions returns Ok.
JoinFinalDone ==
    /\ pc = "join" /\ final_join /\ AllDone
    /\ last_download_block' = end_block
    /\ ReturnOk(end_block)
    /\ UNCHANGED <<envVars, status_calls, db, COUNTER, histVars>>

\* ----------------------------------------------------- continuous_indexing
\* lines 289-291: a pass of the loop loads the checkpoint ckpt and calls
\* get_latest_block.
NextPass(ckpt) ==
    /\ pc' = "follow_status"
    /\ last_indexed_block' = LoadOrZero(ckpt)
    /\ gl_retries' = 0
    /\ fetched' = << >> /\ returned' = {}

\* get_latest_block lines 116-118, then lines 300-301: a Moving status with
\* height h; with nothing new the pass goes to its sleep at line 318.
FollowStatusMoving ==
    /\ pc = "follow_status"
    /\ \E h \in Tips :
         /\ tip' = h
         /\ latest_block' = h
         /\ IF h > last_indexed_block
            THEN /\ block_height' = last_indexed_block + 1
                 /\ pc' = "follow_fetch"
            ELSE /\ pc' = "follow_sleep"
                 /\ UNCHANGED block_height
    /\ UNCHANGED <<cutoff, test_mode, fail_limit, err_after_ok, probe, storeVars,
                   supVars, retries, geVars, bulkVars, last_indexed_block,
                   gl_retries, fetched, returned, skipped, histVars,
                   status_calls>>

\* A reply get_latest_block counts as a retry: after MAX_RETRIES of them it
\* returns Err, and lines 293-297 sleep and start the next pass.
FollowStatusRetry ==
    /\ IF gl_retries + 1 >= MAX_RETRIES
       THEN NextPass(last_download_block)
       ELSE /\ gl_retries' = gl_retries + 1
            /\ UNCHANGED <<pc, last_indexed_block, fetched, returned>>
    /\ UNCHANGED <<envVars, status_calls, storeVars, supVars, retries, latest_block, geVars,
                   bulkVars, block_height, skipped, histVars>>

\* get_latest_block lines 119-125: the status is not Moving.
FollowStatusOther ==
    /\ pc = "follow_status"
    /\ FollowStatusRetry

\* get_latest_block lines 126-132: get_chain_status failed.
FollowStatusErr ==
    /\ pc = "follow_status"
    /\ FollowStatusRetry

\* lines 301 and 314-318: after block_height the for loop takes the next
\* height, or ends, saves latest_block as the checkpoint and sleeps.
FollowAdvance ==
    IF block_height < latest_block
    THEN /\ block_height' = block_height + 1
         /\ UNCHANGED <<pc, last_download_block>>
    ELSE /\ last_download_block' = latest_block
         /\ pc' = "follow_sleep"
         /\ UNCHANGED block_height

\* lines 302-306: GetBlock(block_height) returned a block and process_block
\* returned.
FollowFetchOk ==
    /\ pc = "follow_fetch"
    /\ Present(block_height)
    /\ LET r == ProcessBlock(db, BlockAt(block_height))
       IN  /\ r.ok
           /\ db' = r.db
    /\ fetched' = Append(fetched, block_height)
    /\ returned' = returned \cup {block_height}
    /\ processed' = processed \cup {block_height}
    /\ handled' = handled \cup {block_height}
    /\ FollowAdvance
    /\ UNCHANGED <<envVars, status_calls, COUNTER, supVars, retries, latest_block, geVars,
                   bulkVars, last_indexed_block, gl_retries, skipped,
                   panic_cause>>

\* lines 302-304 and 351/357: GetBlock(block_height) returned a block and
\* process_block panicked on a payload that does not decode; the records
\* written before stay, the thread is gone.
FollowFetchPanic ==
    /\ pc = "follow_fetch"
    /\ Present(block_height)
    /\ LET r == ProcessBlock(db, BlockAt(block_height))
       IN  /\ ~r.ok
           /\ db' = r.db
    /\ fetched' = Append(fetched, block_height)
    /\ returned' = returned \cup {block_height}
    /\ handled' = handled \cup {block_height}
    /\ pc' = "panicked"
    /\ panic_cause' = "decode_any"
    /\ UNCHANGED <<envVars, status_calls, last_download_block, COUNTER, supVars, retries,
                   latest_block, geVars, bulkVars, last_indexed_block,
                   block_height, gl_retries, skipped, processed>>

\* lines 307-312: GetBlock(block_height) returned None or failed; the height
\* is logged and the loop goes on.
FollowFetchSkip ==
    /\ pc = "follow_fetch"
    /\ fetched' = Append(fetched, block_height)
    /\ skipped' = skipped \cup {block_height}
    /\ FollowAdvance
    /\ UNCHANGED <<envVars, status_calls, db, COUNTER, supVars, retries, latest_block,
                   geVars, bulkVars, last_indexed_block, gl_retries, returned,
                   histVars>>

\* line 318, then lines 289-291: the sleep is over and the next pass begins.
FollowSleep ==
    /\ pc = "follow_sleep"
    /\ NextPass(last_download_block)
    /\ UNCHANGED <<envVars, status_calls, storeVars, supVars, retries, latest_block, geVars,
                   bulkVars, block_height, skipped, histVars>>

\* ------------------------------------------------------ the specifications
Next ==
    \/ Status1Err
    \/ Status1Moving
    \/ Status1Other
    \/ Status2Moving
    \/ Status2Other
    \/ Status2Err
    \/ EarliestPresent
    \/ EarliestAbsent
    \/ EarliestError
    \/ EarliestReturn
    \/ Partition
    \/ PartitionUnderflow
    \/ \E i \in 1..Len(futures) : TaskErr(i)
    \/ \E i \in 1..Len(futures) : TaskOkEmpty(i)
    \/ \E i \in 1..Len(futures) : TaskOkBlocks(i)
    \/ JoinWindowDone
    \/ JoinFinalDone
    \/ RetrySleep
    \/ FollowStatusMoving
    \/ FollowStatusOther
    \/ FollowStatusErr
    \/ FollowFetchOk
    \/ FollowFetchPanic
    \/ FollowFetchSkip
    \/ FollowSleep

Spec == Init /\ [][Next]_vars

NextEarliest ==
    \/ EarliestPresent
    \/ EarliestAbsent
    \/ EarliestError
    \/ EarliestReturn

SpecEarliest == InitEarliest /\ [][NextEarliest]_vars

\* A bulk pass on an empty store that has just reached its only join_all:
\* the sub-range tasks of [eb, endb) have been polled once.
InitSearch ==
    /\ cutoff = 1
    /\ test_mode = FALSE
    /\ fail_limit = 0
    /\ err_after_ok = TRUE
    /\ probe = << >>
    /\ pc = "join"
    /\ db = {} /\ last_download_block = None /\ COUNTER = ZeroCounters
    /\ site = "first" /\ retry_interval = None
    /\ failed_retries = 0 /\ slept = None /\ err_returns = 0
    /\ retries = 0
    /\ ge_err = FALSE
    /\ \E eb \in 2..3 : \E endb \in (eb + 1)..(eb + EXECUTE_SIZE * BATCH_SIZE) :
         /\ tip = endb /\ latest_block = endb
         /\ start = eb - 1 /\ end = eb - 2 /\ earliest_ret = eb
         /\ earliest_block = eb /\ end_block = endb /\ bulk_start = eb
         /\ futures = ForLoop(Split(eb, endb), 1, {}).futures
         /\ fut_iter = ForLoop(Split(eb, endb), 1, {}).fut_iter
         /\ buf = ForLoop(Split(eb, endb), 1, {}).buf
         /\ final_join = ForLoop(Split(eb, endb), 1, {}).final_join
    /\ last_indexed_block = None /\ block_height = None /\ gl_retries = 0
    /\ fetched = << >> /\ returned = {} /\ skipped = {}
    /\ processed = {} /\ handled = {} /\ panic_cause = "none"
    /\ status_calls = 0

NextSearch ==
    \/ \E i \in 1..Len(futures) : TaskErr(i)
    \/ \E i \in 1..Len(futures) : TaskOkEmpty(i)
    \/ \E i \in 1..Len(futures) : TaskOkBlocks(i)
    \/ JoinFinalDone

SpecSearch == InitSearch /\ [][NextSearch]_vars

\* The same pass with an executor that keeps polling the join_all and a
\* node that answers every call: a step is taken as long as one is possible.
SpecSearchFair == SpecSearch /\ WF_vars(NextSearch)

\* A bulk pass on an empty store at its only join_all, with at most
\* EXECUTE_SIZE sub-ranges, in a run where no call fails and
\* get_block_range(s, e) answers with the heights s..e-1; then the follow
\* loop.
InitHandoff ==
    /\ cutoff = 1
    /\ test_mode = FALSE
    /\ fail_limit = 0
    /\ err_after_ok = FALSE
    /\ probe = << >>
    /\ pc = "join"
    /\ db = {} /\ last_download_block = None /\ COUNTER = ZeroCounters
    /\ site = "first" /\ retry_interval = None
    /\ failed_retries = 0 /\ slept = None /\ err_returns = 0
    /\ retries = 0
    /\ ge_err = FALSE
    /\ \E eb \in 2..3 : \E endb \in (eb + 1)..(eb + EXECUTE_SIZE * BATCH_SIZE) :
         /\ tip \in endb..MaxTip /\ latest_block = endb
         /\ start = eb - 1 /\ end = eb - 2 /\ earliest_ret = eb
         /\ earliest_block = eb /\ end_block = endb /\ bulk_start = eb
         /\ futures = ForLoop(Split(eb, endb), 1, {}).futures
         /\ fut_iter = ForLoop(Split(eb, endb), 1, {}).fut_iter
         /\ buf = ForLoop(Split(eb, endb), 1, {}).buf
         /\ final_join = ForLoop(Split(eb, endb), 1, {}).final_join
    /\ last_indexed_block = None /\ block_height = None /\ gl_retries = 0
    /\ fetched = << >> /\ returned = {} /\ skipped = {}
    /\ processed = {} /\ handled = {} /\ panic_cause = "none"
    /\ status_calls = 0

NextHandoff ==
    \/ \E i \in 1..Len(futures) : TaskOkExclusive(i)
    \/ \E i \in 1..Len(futures) : TaskOkEmpty(i)
    \/ JoinFinalDone
    \/ FollowStatusMoving
    \/ FollowFetchOk
    \/ FollowFetchPanic
    \/ FollowSleep

SpecHandoff == InitHandoff /\ [][NextHandoff]_vars

\* Heights as decimal digits: 0, and a leading 1 or 9 followed by up to
\* MaxDigits - 1 zeros or nines.
ProbeHeights ==
    {<<0>>} \cup {<<d>> \o [i \in 1..k |-> f] :
                   d \in {1, 9}, f \in {0, 9}, k \in 0..(MaxDigits - 1)}

\* Two records to store: their heights, kinds and block times.
InitKeys ==
    /\ cutoff = 1 /\ tip = 1
    /\ test_mode = FALSE
    /\ fail_limit = 0
    /\ err_after_ok = FALSE
    /\ pc = "keys"
    /\ start = None /\ end = None
    /\ probe \in [h1 : ProbeHeights, h2 : ProbeHeights,
                   kind1 : {MsgSendKind, MsgIbcTransferKind},
                   kind2 : {MsgSendKind, MsgIbcTransferKind},
                   ts1 : {<<1>>, <<9, 9>>}, ts2 : {<<1>>, <<9, 9>>},
                   key1 : {<< >>}, key2 : {<< >>}, built : {FALSE}]
    /\ Fresh

\* lines 232-233 (258-261, 353, 359-362): the keys of the two records.
BuildKeys ==
    /\ pc = "keys" /\ ~probe.built
    /\ probe' = [probe EXCEPT
                   !.key1 = KeyString(probe.h1, probe.kind1, probe.ts1, <<65, 66>>),
                   !.key2 = KeyString(probe.h2, probe.kind2, probe.ts2, <<48, 49>>),
                   !.built = TRUE]
    /\ UNCHANGED <<tip, cutoff, test_mode, fail_limit, err_after_ok, storeVars,
                   pc, supVars, retries, latest_block, geVars, bulkVars,
                   followVars, histVars, status_calls>>

SpecKeys == InitKeys /\ [][BuildKeys]_vars

\* The partition on its own: a start, an end and a batch size.
InitPartition ==
    /\ cutoff = 1 /\ tip = 1
    /\ test_mode = FALSE
    /\ fail_limit = 0
    /\ err_after_ok = FALSE
    /\ pc = "partition"
    /\ start = None /\ end = None
    /\ probe \in [pos : 0..MaxSplitHeight, end_block : 0..MaxSplitHeight,
                   batch : 1..MaxBatch, futures : {<< >>}, built : {FALSE}]
    /\ Fresh

\* lines 523-536: the while loop has pushed its futures.
BuildPartition ==
    /\ pc = "partition" /\ ~probe.built
    /\ probe' = [probe EXCEPT
                   !.futures = SplitBy(probe.pos, probe.end_block, probe.batch),
                   !.built = TRUE]
    /\ UNCHANGED <<tip, cutoff, test_mode, fail_limit, err_after_ok, storeVars,
                   pc, supVars, retries, latest_block, geVars, bulkVars,
                   followVars, histVars, status_calls>>

SpecPartition == InitPartition /\ [][BuildPartition]_vars

NextSup ==
    \/ Status1Err
    \/ RetrySleep

SpecSup == InitSup /\ [][NextSup]_vars

\* ================================================================ properties
\* C1 (get_earliest_block): on a node whose available heights are the
\* contiguous suffix cutoff.. of [low, high] and whose answers are truthful,
\* the search returns the smallest available height, cutoff.
C1_EarliestIsSmallestAvailable ==
    (pc = "earliest_done" /\ ~ge_err) => earliest_ret = cutoff

\* C2 (transactions): every sub-range of [earliest, latest) is run, in
\* windows of at most EXECUTE_SIZE, and only then does the pass save the
\* checkpoint: when the pass leaves its last join_all, every search future
\* it built has run to completion.
C2_EverySubRangeRunBeforeSave ==
    [][(pc = "join" /\ pc' # "join")
         => \A i \in 1..Len(futures) : futures[i].status = "done"]_vars

\* C3 (checkpoint invariant): at every point of the follow loop every height
\* of [initial bulk start, checkpoint) has been processed; so the checkpoint
\* is not moved past a sub-range that used up its retries.
C3_CheckpointInvariant ==
    pc \in {"follow_status", "follow_fetch", "follow_sleep"}
      => \A h \in bulk_start..(last_download_block - 1) : h \in processed

\* C4 (search): after MAX_RETRIES consecutive failed calls of get_block_range
\* the task has stopped: no task with MAX_RETRIES failures behind it is still
\* calling.
C4_StopsAfterMaxRetries ==
    \A i \in 1..Len(futures) :
      futures[i].status = "running" => futures[i].retries < MAX_RETRIES

\* C5 (search): when four calls of get_block_range have failed and the next
\* one succeeds, the retry count goes back to 0, the task does not give up,
\* and the blocks that call returned (heights current_start up to the new
\* current_start) are processed.
C5_SuccessResetsAndProcesses ==
    [][\A i \in 1..Len(futures) :
         ( /\ pc' = "join"
           /\ Len(futures') = Len(futures)
           /\ futures[i].retries = MAX_RETRIES - 1
           /\ futures'[i] # futures[i]
           /\ futures'[i].retries # MAX_RETRIES )
         => /\ futures'[i].retries = 0
            /\ ~futures'[i].gave_up
            /\ \A h \in futures[i].current_start..(futures'[i].current_start - 1) :
                 h \in processed']_vars

\* C6 (continuous_indexing): in a pass whose fetches all succeed, GetBlock is
\* called once for each height checkpoint+1..tip in ascending order, every
\* returned block is processed, and then the checkpoint is saved as tip; a
\* pass with tip <= checkpoint fetches nothing and leaves the checkpoint.
C6_FollowPass ==
    /\ returned \subseteq processed
    /\ pc = "follow_fetch"
         => fetched = Range(last_indexed_block + 1, block_height - 1)
    /\ (pc = "follow_sleep" /\ latest_block > last_indexed_block
          /\ SeqToSet(fetched) = returned)
         => /\ fetched = Range(last_indexed_block + 1, latest_block)
            /\ last_download_block = latest_block
    /\ (pc = "follow_sleep" /\ latest_block <= last_indexed_block)
         => /\ fetched = << >>
            /\ LoadOrZero(last_download_block) = last_indexed_block

\* C7 (continuous_indexing): a height whose GetBlock returned no block or
\* failed is not processed and the checkpoint is not moved past it, so the
\* next pass fetches it again.
C7_SkippedHeightKeepsCheckpoint ==
    \A h \in skipped :
      h \notin processed
        => /\ LoadOrZero(last_download_block) < h
           /\ pc = "follow_status" => last_indexed_block < h

\* C8 (transaction_info_thread): a call of transactions that returns Ok is
\* followed by the follow loop, whether it was the first call or a retry.
C8_OkEntersFollowLoop ==
    [][(pc = "join" /\ pc' \notin {"join", "panicked"})
         => pc' = "follow_status"]_vars

\* C9 (transaction_info_thread), as stated: the delay doubles with each
\* failed retry: the sleep before the retry that follows k failed retries
\* lasts 2^k seconds.
C9_DelayDoublesEachTime ==
    (site = "retry" /\ pc = "status1") => slept = failed_retries

\* C9, as the code has it: the sleep before the retry that follows k failed
\* retries lasts 2^k seconds up to 2^(DurationSecsBits - 1) seconds and stays
\* there, where checked_mul overflows; the supervisor is always either
\* retrying or sleeping before a retry.
C9_DelayDoublesUntilOverflow ==
    /\ pc \in {"status1", "sup_sleep"}
    /\ pc = "sup_sleep" => site = "retry"
    /\ (site = "retry" /\ pc = "status1")
         => slept = Min(failed_retries, DurationSecsBits - 1)

\* C9: the supervisor has slept the longest delay twice in a row.
C9_Saturated ==
    /\ site = "retry" /\ pc = "status1"
    /\ failed_retries = DurationSecsBits
    /\ slept = DurationSecsBits - 1

\* The key under which the message m of tx in the block at height h is
\* stored.
RecordKey(h, tx, m) ==
    IF m.type_url = SEND_URL
    THEN MsgSendKey(h, BlockAt(h).time, TxHash(tx.raw))
    ELSE MsgIbcTransferKey(h, BlockAt(h).time, TxHash(tx.raw))

Keys(store) == {r.key : r \in store}

\* C10 (both paths): a send or transfer message whose payload does not
\* decode is skipped: nothing is stored for it, nothing aborts, and the
\* decodable messages of the blocks handed to either path are stored.
C10_UndecodableIsSkipped ==
    /\ panic_cause # "decode_any"
    /\ \A h \in handled : \A j \in 1..Len(TxsAt(h)) :
         LET tx == TxsAt(h)[j]
         IN  \A k \in 1..Len(tx.messages) :
               LET m == tx.messages[k]
               IN  m.type_url \in {SEND_URL, TRANSFER_URL}
                     => IF m.decodable
                        THEN RecordKey(h, tx, m) \in Keys(db)
                        ELSE (\A n \in 1..Len(tx.messages) :
                                tx.messages[n].type_url = m.type_url
                                  => ~tx.messages[n].decodable)
                               => RecordKey(h, tx, m) \notin Keys(db)

\* C11 (save_msg_send, save_msg_ibc_transfer): the store holds one value per
\* key, and processing again a block that has been processed, by the bulk
\* path or by the follow path, leaves the store with exactly the keys and
\* values it has.
C11_ReprocessingIsIdempotent ==
    /\ \A r1, r2 \in db : r1.key = r2.key => r1 = r2
    /\ \A h \in processed :
         /\ SearchBlocks(db, <<h>>, 1) = db
         /\ ProcessBlock(db, BlockAt(h)).ok
              => ProcessBlock(db, BlockAt(h)).db = db

\* C11: the block at height 3 (one decodable send) has been walked by two
\* sub-range tasks: its send was counted twice and its records are stored.
C11_BlockWalkedTwice ==
    /\ processed = {2, 3}
    /\ COUNTER.send_msgs = 2
    /\ \E r \in db : r.key = MsgSendKey(3, BlockAt(3).time, TxHash(TxsAt(3)[1].raw))

\* C12 (record keys), as stated: for any two heights h1 < h2, whatever the
\* kinds and timestamps, the key built for h1 sorts strictly before the key
\* built for h2.
C12_KeysOrderedByHeight ==
    (pc = "keys" /\ probe.built /\ DecLess(probe.h1, probe.h2))
      => LexLess(probe.key1, probe.key2)

\* C12, as the code has it: the same for heights of at most 12 digits,
\* that is below 10^12.
C12_KeysOrderedBelowWidth ==
    (pc = "keys" /\ probe.built /\ DecLess(probe.h1, probe.h2)
       /\ Len(probe.h2) <= 12)
      => LexLess(probe.key1, probe.key2)

\* C12: keys were built for a height of 11 digits and a greater one of 12
\* digits, and the first sorts before the second.
C12_PaddedKeysBuilt ==
    /\ pc = "keys" /\ probe.built
    /\ Len(probe.h1) = 11 /\ Len(probe.h2) = 12
    /\ probe.h1[1] = 9 /\ probe.h2[1] = 1
    /\ LexLess(probe.key1, probe.key2)

\* C13 (get_earliest_block in transactions): a get_block call that fails
\* during the earliest-block search is not an answer about availability: a
\* bulk pass on a store without checkpoint that saw such a failure and still
\* ran sub-range tasks and saves its checkpoint has started where the
\* search starts it when every call answers, not above.
C13_QueryErrorIsNotAbsence ==
    [][(pc = "join" /\ pc' \notin {"join", "panicked"}
          /\ ge_err /\ last_download_block = None /\ futures # << >>)
         => earliest_block = GetEarliestBlock(0, latest_block)]_vars

\* The sub-range tasks that have a get_block_range call in flight.
InFlight == {i \in 1..Len(futures) : futures[i].status = "running"}

\* C14 (transactions, lines 538-554): at most EXECUTE_SIZE sub-range tasks
\* are in flight, all of them in the buffer being joined; the futures the
\* for loop has not reached have not been polled, and every future it took
\* before the current buffer has finished or was never polled.
C14_WindowedConcurrency ==
    /\ Cardinality(InFlight) <= EXECUTE_SIZE
    /\ Cardinality(buf) <= EXECUTE_SIZE
    /\ InFlight \subseteq buf
    /\ \A i \in 1..Len(futures) :
         IF i \in buf THEN futures[i].status \in {"running", "done"}
         ELSE IF i >= fut_iter THEN futures[i].status = "created"
         ELSE futures[i].status \in {"done", "dropped"}

\* C14: a task of the second window is in flight and the EXECUTE_SIZE
\* tasks of the first window have all finished.
C14_SecondWindowRunning ==
    /\ pc = "join"
    /\ \E j \in InFlight : j > EXECUTE_SIZE
    /\ \A i \in 1..EXECUTE_SIZE : futures[i].status = "done"

\* C15 (transactions, lines 519-536): for start < end the sub-ranges are
\* consecutive from start to end, each spans between 1 and the batch size
\* heights, and every height of [start, end) lies in exactly one of them;
\* for start >= end there is none.
C15_PartitionCoversRange ==
    (pc = "partition" /\ probe.built) =>
      LET r == probe.futures
      IN  IF probe.pos < probe.end_block
          THEN /\ Len(r) >= 1
               /\ r[1].start = probe.pos
               /\ r[Len(r)].end = probe.end_block
               /\ \A k \in 1..(Len(r) - 1) : r[k + 1].start = r[k].end
               /\ \A k \in 1..Len(r) :
                    /\ r[k].end - r[k].start >= 1
                    /\ r[k].end - r[k].start <= probe.batch
               /\ \A h \in probe.pos..(probe.end_block - 1) :
                    Cardinality({k \in 1..Len(r) :
                                   r[k].start <= h /\ h < r[k].end}) = 1
          ELSE r = << >>

\* C15: a range was cut into three sub-ranges or more, the last one shorter
\* than the batch size of 2 or more.
C15_PartitionWithRemainder ==
    /\ pc = "partition" /\ probe.built
    /\ probe.batch >= 2
    /\ Len(probe.futures) >= 3
    /\ probe.futures[Len(probe.futures)].end
         - probe.futures[Len(probe.futures)].start < probe.batch

\* C16 (transactions, lines 538-566): during a bulk pass the checkpoint key
\* is left alone by every step up to the last join_all, whatever the
\* sub-range tasks get (blocks, an empty result, or errors until they give
\* up), and is written once, with end_block, when the pass leaves that
\* join_all, with no launched task still in flight.
C16_CheckpointWrittenOnceAtEnd ==
    [][/\ (pc \in {"status1", "status2", "earliest", "earliest_done"}
            \/ (pc = "join" /\ pc' = "join"))
           => last_download_block' = last_download_block
       /\ (pc = "join" /\ pc' # "join")
           => /\ last_download_block' = end_block
              /\ InFlight = {}]_vars

\* C16: on a store without checkpoint every sub-range task has finished,
\* one with blocks persisted and one after using up its retries, and the
\* checkpoint key is still unwritten when the last join_all returns.
C16_TasksDoneKeyUnwritten ==
    /\ pc = "join" /\ final_join /\ AllDone
    /\ \E i \in 1..Len(futures) : futures[i].gave_up
    /\ \E i \in 1..Len(futures) : futures[i].succeeded /\ futures[i].start \in processed
    /\ last_download_block = None

\* C17 (transactions, lines 442-494): the resolution of the chain tip ends
\* within the retry budget, whatever the node answers: while transactions
\* is still asking for the chain status it has had at most MAX_RETRIES
\* replies (errors or statuses that are not Moving) in each of its two
\* loops.
C17_TipResolutionBounded ==
    pc \in {"status1", "status2"} => status_calls <= 2 * MAX_RETRIES

\* The value stored for the message m.
RecordValue(m) ==
    IF m.type_url = SEND_URL THEN CustomMsgSend(m.value)
    ELSE CustomMsgTransfer(m.value)

\* C18 (search and process_block): after a block has been processed, every
\* send or transfer message of it whose payload decoded has a record in the
\* store whose value is that message's normalized form, also when its
\* transaction holds several messages of the same kind.
C18_EveryDecodedMessageHasRecord ==
    \A h \in processed : \A j \in 1..Len(TxsAt(h)) :
      LET tx == TxsAt(h)[j]
      IN  \A k \in 1..Len(tx.messages) :
            LET m == tx.messages[k]
            IN  (m.type_url \in {SEND_URL, TRANSFER_URL} /\ m.decodable)
                  => \E r \in db : /\ r.key = RecordKey(h, tx, m)
                                   /\ r.val = RecordValue(m)

\* C19 (search): when get_block_range answers a task with a non-empty result
\* of heights current_start..hi, hi at most end, every block of the result is
\* processed before the task calls again or ends, and the blocks counter
\* grows by the number of blocks processed in that step, not by more.
C19_WholeResultProcessedAndCounted ==
    [][\A i \in 1..Len(futures) :
         ( /\ pc' = "join"
           /\ Len(futures') = Len(futures)
           /\ futures'[i].current_start > futures[i].current_start )
         => LET result == futures[i].current_start..(futures'[i].current_start - 1)
            IN  /\ result \subseteq processed'
                /\ COUNTER'.blocks =
                     COUNTER.blocks + Cardinality(result \cap processed')]_vars

\* C20 (transactions, continuous_indexing): in a run without failed calls,
\* with at most EXECUTE_SIZE sub-ranges and a get_block_range whose end is
\* exclusive, once the follow loop runs every height from the bulk start up
\* to and including the checkpoint has been processed, the bulk end height
\* among them.
C20_NoGapAtHandOff ==
    (pc \in {"follow_status", "follow_fetch", "follow_sleep"}
       /\ last_download_block # None)
      => \A h \in bulk_start..last_download_block : h \in processed

\* C21 (transactions, continuous_indexing): with a tip that never decreases,
\* every write of the checkpoint key, by a bulk pass in normal or test mode,
\* after a retry of the supervisor or by a pass of the follow loop, stores a
\* value greater than or equal to the one it replaces.
C21_CheckpointNeverDecreases ==
    [][last_download_block # None
         => last_download_block' >= last_download_block]_vars

\* C21: a bulk pass that began from a stored checkpoint has written the
\* checkpoint again, and a pass of the follow loop has then replaced it.
C21_CheckpointReplaced ==
    /\ pc = "follow_sleep"
    /\ err_returns > 0
    /\ last_indexed_block > 0
    /\ last_download_block > last_indexed_block

\* C22 (search): whatever get_block_range answers, with results that lie
\* between the requested start and end, every sub-range task ends after
\* finitely many calls: a non-empty result raises current_start, an empty
\* one ends the loop, and failures in a row end it when the retry budget is
\* used up.
C22_EveryTaskTerminates ==
    <>(\A i \in 1..Len(futures) : futures[i].status = "done")

\* C22: two tasks have ended, one on an empty result after it had walked
\* its blocks, the other by giving up after failures in a row.
C22_EndedBothWays ==
    /\ pc = "join"
    /\ \A i \in 1..Len(futures) : futures[i].status = "done"
    /\ \E i \in 1..Len(futures) :
         /\ futures[i].gave_up /\ futures[i].retries > MAX_RETRIES
    /\ \E i \in 1..Len(futures) :
         /\ ~futures[i].gave_up /\ futures[i].current_start > futures[i].start

====
